---------------------------- MODULE Spec2Model ----------------------------
(***************************************************************************)
(* Toolbox::List<Type> (List.h) and Toolbox::Sorting (Sorting.h).          *)
(*                                                                         *)
(* A List is a heap of doubly linked nodes.  A node is identified by its   *)
(* address, a number in NodeIds; NULL is the null pointer.  Each node owns *)
(* one heap element (Node::data), so the data pointer of node n is         *)
(* represented by n itself and the pointed-to element by data[n].          *)
(* Addresses are observable only through pointer equality, so the heap is  *)
(* kept up to a renaming of addresses (Canon).                             *)
(***************************************************************************)
EXTENDS Integers, Sequences, FiniteSets, TLC

\* ------------------------------------------------------------------ bounds
MaxSize == 5                      \* largest list the list model works on
MaxLen == 5                       \* longest collection handed to a sort
MaxCopied == 3                    \* longest list that is copied or moved
SizeBits == 16                    \* width given to size_t (64 in the build)

Values == {1, 2}                  \* element values of the list model
SortValues == {1, 3, 4, 5}        \* element values of the sorting model
NULL == 0                         \* nullptr
NoData == 0                       \* no element (freed node / null data)
HeapSize == (IF MaxSize > MaxLen THEN MaxSize ELSE MaxLen) + 1
NodeIds == 1..HeapSize             \* the addresses operator new can return
SIZE_MAX == 2^SizeBits - 1
Comparers == {"GreaterThan", "LessThan"}

VARIABLES
    size,       \* List::size
    head,       \* List::head
    tail,       \* List::tail
    previous,   \* Node::previous of every node
    data,       \* *Node::data of every node (NoData when not allocated)
    next,       \* Node::next of every node
    array,      \* a raw indexable collection handed to Sorting (0-based)
    input,      \* the elements the sorting driver started from
    pc,         \* position of the driver
    last,       \* the last call: operation, arguments, outcome, result
    other,      \* size, head and tail of a second List object
    code,       \* Thread::code
    started,    \* Thread::started
    cancelled,  \* Thread::cancelled
    complete,   \* Thread::complete
    thread,     \* Thread::thread: the state of the std::thread handle
    worker,     \* position of the thread function of Thread::thread
    owner,      \* position of the thread that owns the Thread object
    canceller,  \* position of a second thread that calls Cancel()
    returned    \* the member function of Thread that returned last, and its result

listVars == <<size, head, tail, previous, data, next>>
threadVars == <<code, started, cancelled, complete, thread, worker, owner,
                canceller, returned>>
vars == <<size, head, tail, previous, data, next, array, input, pc, last,
          other, threadVars>>

\* A List object right after List::List() (List.h:249-250).
EmptyObject == [size |-> 0, head |-> NULL, tail |-> NULL]

\* THREAD_INCOMPLETE (Thread.h:13).
THREAD_INCOMPLETE == -1

\* Thread::Thread(const Lambda&) (Thread.h:77): the fields, the joinable
\* std::thread whose function has not run yet, and no call made so far.
InitThread ==
    /\ code = THREAD_INCOMPLETE
    /\ started = FALSE
    /\ cancelled = FALSE
    /\ complete = FALSE
    /\ thread = "joinable"
    /\ worker = "spin"
    /\ owner = "idle"
    /\ canceller = "idle"
    /\ returned = [op |-> "Thread", ret |-> TRUE]

\* A signed subtraction, which goes below zero instead of wrapping.
SubSigned(a, b) == a - b

\* size_t subtraction (size - 1 at List.h:410, 673, 701; Size - 1 at
\* Sorting.h:125, 136, 155, 161).
SubSize(a, b) == (a - b + SIZE_MAX + 1) % (SIZE_MAX + 1)

\* --------------------------------------------------------------- Node
NullNode == [previous |-> NULL, data |-> NULL, next |-> NULL]

\* The Node object stored at address n (reading through a null pointer is
\* undefined; it is given the null node so that callers can flag it).
NodeAt(n) ==
    IF n = NULL THEN NullNode
    ELSE [previous |-> previous[n], data |-> n, next |-> next[n]]

\* Node::operator++ on a Node object (List.h:81-88).
NodeIncrement(This) ==
    IF This.next = NULL THEN NullNode ELSE NodeAt(This.next)

\* Node::operator-- on a Node object (List.h:120-127).
NodeDecrement(This) ==
    IF This.previous = NULL THEN NullNode ELSE NodeAt(This.previous)

RECURSIVE NodePlusAssign(_, _)
\* Node::operator+= (List.h:107-117).
NodePlusAssign(This, Count) ==
    IF Count > 0 THEN NodePlusAssign(NodeIncrement(This), Count - 1)
    ELSE IF Count < 0 THEN NodePlusAssign(NodeDecrement(This), Count + 1)
    ELSE This

RECURSIVE NodeMinusAssign(_, _)
\* Node::operator-= (List.h:146-156).
NodeMinusAssign(This, Count) ==
    IF Count > 0 THEN NodeMinusAssign(NodeDecrement(This), Count - 1)
    ELSE IF Count < 0 THEN NodeMinusAssign(NodeIncrement(This), Count + 1)
    ELSE This

\* Node::operator+ (List.h:97-104): the address of the returned Node&.
NodePlus(this, Count) ==
    IF Count = 0 THEN this
    ELSE NodePlusAssign(NodeAt(this), Count - 1).next

\* Node::operator- (List.h:136-143): the address of the returned Node&.
NodeMinus(this, Count) ==
    IF Count = 0 THEN this
    ELSE NodeMinusAssign(NodeAt(this), Count + 1).previous

\* --------------------------------------------------------------- List
\* An index check that lets the one-past-the-end index through.
IsValidIndexInclusive(Index) == Index <= size

\* List::IsValidIndex (List.h:384-386).
IsValidIndex(Index) == Index < size

\* List::IsEmpty (List.h:466-468).
IsEmpty == size = 0

\* List::Traverse (List.h:211-225) for a valid index: the address of the
\* returned Node& (NULL when the code binds a reference to *nullptr).
Traverse(Index) ==
    IF Index > size \div 2
    THEN NodeMinus(tail, size - Index - 1)
    ELSE NodePlus(head, Index)

RECURSIVE IncrementLinks(_, _)
\* The next-links that This += Count follows, Count >= 0 (List.h:108-111).
IncrementLinks(This, Count) ==
    IF Count > 0
    THEN (IF This.next = NULL THEN 0 ELSE 1)
             + IncrementLinks(NodeIncrement(This), Count - 1)
    ELSE 0

RECURSIVE DecrementLinks(_, _)
\* The previous-links that This -= Count follows, Count >= 0
\* (List.h:147-150).
DecrementLinks(This, Count) ==
    IF Count > 0
    THEN (IF This.previous = NULL THEN 0 ELSE 1)
             + DecrementLinks(NodeDecrement(This), Count - 1)
    ELSE 0

\* The links Node::operator+ follows: those of Copy += Count - 1 and the
\* one of *Copy.next (List.h:97-104).
NodePlusLinks(this, Count) ==
    IF Count = 0 THEN 0
    ELSE IncrementLinks(NodeAt(this), Count - 1) + 1

\* The links Node::operator- follows: those of Copy -= Count + 1 and the
\* one of *Copy.previous (List.h:136-143).
NodeMinusLinks(this, Count) ==
    IF Count = 0 THEN 0
    ELSE DecrementLinks(NodeAt(this), Count + 1) + 1

\* The links List::Traverse follows for a valid index (List.h:220-225).
TraverseLinks(Index) ==
    IF Index > size \div 2
    THEN NodeMinusLinks(tail, size - Index - 1)
    ELSE NodePlusLinks(head, Index)

\* The element reached from head by following exactly i next-links.
RECURSIVE Walk(_, _)
Walk(n, i) == IF n = NULL \/ i = 0 THEN n ELSE Walk(next[n], i - 1)

RECURSIVE WalkBack(_, _)
WalkBack(n, i) == IF n = NULL \/ i = 0 THEN n ELSE WalkBack(previous[n], i - 1)

ValueOf(d, n) == IF n = NULL THEN NoData ELSE d[n]

\* The elements in head-to-tail order (what range iteration visits).
Elements == [i \in 1..size |-> ValueOf(data, Walk(head, i - 1))]

\* The list object and its heap as one value.
Cur == [size |-> size, head |-> head, tail |-> tail,
        previous |-> previous, data |-> data, next |-> next]

\* ----------------------------------------------------- heap addresses
RECURSIVE Reach(_, _, _)
Reach(L, n, seen) ==
    IF n = NULL \/ n \in seen THEN <<>>
    ELSE <<n>> \o Reach(L, L.next[n], seen \cup {n})

RECURSIVE Ascending(_)
Ascending(S) ==
    IF S = {} THEN <<>>
    ELSE LET m == CHOOSE x \in S : \A y \in S : x <= y
         IN <<m>> \o Ascending(S \ {m})

Range(s) == {s[i] : i \in 1..Len(s)}

\* operator new / operator delete leave the addresses of nodes unspecified:
\* the heap is renamed so that the nodes reached from head come first.
Canon(L) ==
    LET chain == Reach(L, L.head, {})
        live  == {n \in NodeIds : L.data[n] # NoData} \ Range(chain)
        rest  == NodeIds \ (Range(chain) \cup live)
        ord   == chain \o Ascending(live) \o Ascending(rest)
        R(n)  == IF n = NULL THEN NULL
                 ELSE CHOOSE k \in NodeIds : ord[k] = n
    IN [size |-> L.size, head |-> R(L.head), tail |-> R(L.tail),
        previous |-> [k \in NodeIds |-> R(L.previous[ord[k]])],
        data |-> [k \in NodeIds |-> L.data[ord[k]]],
        next |-> [k \in NodeIds |-> R(L.next[ord[k]])],
        renamed |-> [n \in NodeIds \cup {NULL} |-> R(n)]]

\* The list object L with its heap becomes the state; Object, the second
\* List object, keeps its nodes under their new addresses.
StoreBoth(L, Object) ==
    LET C == Canon(L)
    IN /\ size' = C.size
       /\ head' = C.head
       /\ tail' = C.tail
       /\ previous' = C.previous
       /\ data' = C.data
       /\ next' = C.next
       /\ other' = [size |-> Object.size, head |-> C.renamed[Object.head],
                    tail |-> C.renamed[Object.tail]]

Store(L) == StoreBoth(L, other)

\* new Node(Value, Previous, Next) (List.h:42-43): a fresh address.
FreeNodes == {n \in NodeIds : data[n] = NoData}
NewNode == CHOOSE n \in FreeNodes : \A m \in FreeNodes : n <= m

\* delete Node->data; Node->data = nullptr; delete Node.
Delete(L, n) ==
    [L EXCEPT !.data[n] = NoData, !.previous[n] = NULL, !.next[n] = NULL]

Call(op, a, b, v, outcome, ret) ==
    [op |-> op, a |-> a, b |-> b, v |-> v, outcome |-> outcome, ret |-> ret,
     on |-> "list", cmp |-> "none", flag |-> FALSE]

\* A call that returns a bool.
BoolCall(op, v, outcome, flag) ==
    [Call(op, 0, 0, v, outcome, 0) EXCEPT !.flag = flag]

SortCall(op, Size, on, Comparer, outcome) ==
    [op |-> op, a |-> Size, b |-> 0, v |-> 0, outcome |-> outcome, ret |-> 0,
     on |-> on, cmp |-> Comparer, flag |-> FALSE]

\* Index arguments: every valid index, one past the end (two past it for
\* Insert) and the largest size_t.
Indices == 0..(HeapSize + 1) \cup {SIZE_MAX}
IndexArgs == {Index \in Indices : Index <= size} \cup {SIZE_MAX}
InsertArgs == {Index \in Indices : Index <= size + 1} \cup {SIZE_MAX}

\* ----------------------------------------------------------- Insert
\* Insert whose append to a non-empty list leaves tail at the old last node.
InsertBodyStaleTail(Index, Value) ==
    LET New == NewNode
    IN IF Index = size
       THEN IF IsEmpty
            THEN [Cur EXCEPT !.data[New] = Value, !.previous[New] = NULL,
                             !.next[New] = NULL, !.head = New, !.tail = New,
                             !.size = size + 1]
            ELSE [Cur EXCEPT !.data[New] = Value, !.previous[New] = tail,
                             !.next[New] = NULL, !.next[tail] = New,
                             !.size = size + 1]
       ELSE LET Next == Traverse(Index)
                Prev == previous[Next]
                L1 == [Cur EXCEPT !.data[New] = Value, !.previous[New] = Prev,
                                  !.next[New] = Next]
                L2 == IF Prev # NULL THEN [L1 EXCEPT !.next[Prev] = New]
                      ELSE [L1 EXCEPT !.head = New]
            IN [L2 EXCEPT !.previous[Next] = New, !.size = size + 1]

\* The body of List::Insert / List::Emplace after the range check
\* (List.h:566-588, 611-633): the list it leaves, NULL-safe.
InsertBody(Index, Value) ==
    LET New == NewNode
    IN IF Index = size
       THEN IF IsEmpty
            THEN [Cur EXCEPT !.data[New] = Value, !.previous[New] = NULL,
                             !.next[New] = NULL, !.head = New, !.tail = New,
                             !.size = size + 1]
            ELSE [Cur EXCEPT !.data[New] = Value, !.previous[New] = tail,
                             !.next[New] = NULL, !.next[tail] = New,
                             !.tail = New, !.size = size + 1]
       ELSE LET Next == Traverse(Index)
                Prev == previous[Next]
                L1 == [Cur EXCEPT !.data[New] = Value, !.previous[New] = Prev,
                                  !.next[New] = Next]
                L2 == IF Prev # NULL THEN [L1 EXCEPT !.next[Prev] = New]
                      ELSE [L1 EXCEPT !.head = New]
            IN [L2 EXCEPT !.previous[Next] = New, !.size = size + 1]

\* List::Insert (List.h:558-589).
InsertCall(op, Index, Value) ==
    IF Index > size
    THEN /\ UNCHANGED <<listVars, other>>
         /\ last' = Call(op, Index, 0, Value, "out_of_range", 0)
    ELSE IF Index # size /\ Traverse(Index) = NULL
    THEN /\ UNCHANGED <<listVars, other>>
         /\ last' = Call(op, Index, 0, Value, "ub", 0)
    ELSE /\ FreeNodes # {}
         /\ Store(InsertBody(Index, Value))
         /\ last' = Call(op, Index, 0, Value, "ok", Value)

Insert(Index, Value) ==
    /\ InsertCall("Insert", Index, Value)
    /\ UNCHANGED <<array, input, threadVars, pc>>

\* List::Emplace (List.h:602-634); Type(Arguments...) is the value itself.
Emplace(Index, Arguments) ==
    /\ InsertCall("Emplace", Index, Arguments)
    /\ UNCHANGED <<array, input, threadVars, pc>>

\* List::PushFront (List.h:592-594).
PushFront(Value) ==
    /\ InsertCall("PushFront", 0, Value)
    /\ UNCHANGED <<array, input, threadVars, pc>>

\* List::PushBack (List.h:597-599).
PushBack(Value) ==
    /\ InsertCall("PushBack", size, Value)
    /\ UNCHANGED <<array, input, threadVars, pc>>

\* ------------------------------------------------------------ Erase
\* Erase that leaves the new head's previous pointing at the deleted node.
EraseBodyDanglingPrevious(Index) ==
    IF Index = 0 /\ size # 1
    THEN LET NewHead == next[head]
         IN [Delete(Cur, previous[NewHead]) EXCEPT
                 !.head = NewHead, !.size = SubSize(size, 1)]
    ELSE IF Index = 0
    THEN [Delete(Cur, head) EXCEPT !.head = NULL, !.tail = NULL,
                                   !.size = SubSize(size, 1)]
    ELSE IF Index = SubSize(size, 1)
    THEN LET NewTail == previous[tail]
         IN [Delete(Cur, next[NewTail]) EXCEPT
                 !.tail = NewTail, !.next[NewTail] = NULL,
                 !.size = SubSize(size, 1)]
    ELSE LET Next == next[Traverse(Index)]
             Previous == previous[previous[Next]]
             L1 == [Delete(Cur, previous[Next]) EXCEPT !.previous[Next] = Previous]
             L2 == IF Previous # NULL THEN [L1 EXCEPT !.next[Previous] = Next]
                   ELSE L1
         IN [L2 EXCEPT !.size = SubSize(size, 1)]

\* The body of List::Erase after the range check (List.h:657-691).
EraseBody(Index) ==
    IF Index = 0
    THEN IF size = 1
         THEN [Delete(Cur, head) EXCEPT !.head = NULL, !.tail = NULL,
                                        !.size = SubSize(size, 1)]
         ELSE LET NewHead == next[head]
              IN [Delete(Cur, previous[NewHead]) EXCEPT
                      !.head = NewHead, !.previous[NewHead] = NULL,
                      !.size = SubSize(size, 1)]
    ELSE IF Index = SubSize(size, 1)
    THEN LET NewTail == previous[tail]
         IN [Delete(Cur, next[NewTail]) EXCEPT
                 !.tail = NewTail, !.next[NewTail] = NULL,
                 !.size = SubSize(size, 1)]
    ELSE LET Next == next[Traverse(Index)]
             Previous == previous[previous[Next]]
             L1 == [Delete(Cur, previous[Next]) EXCEPT !.previous[Next] = Previous]
             L2 == IF Previous # NULL THEN [L1 EXCEPT !.next[Previous] = Next]
                   ELSE L1
         IN [L2 EXCEPT !.size = SubSize(size, 1)]

\* Whether the body of Erase reads through a null pointer.
EraseDerefsNull(Index) ==
    IF Index = 0
    THEN head = NULL \/ (size # 1 /\ (next[head] = NULL \/ previous[next[head]] = NULL))
    ELSE IF Index = SubSize(size, 1)
    THEN tail = NULL \/ previous[tail] = NULL \/ next[previous[tail]] = NULL
    ELSE \/ Traverse(Index) = NULL
         \/ next[Traverse(Index)] = NULL
         \/ previous[next[Traverse(Index)]] = NULL

\* List::Erase (List.h:649-692).
EraseCall(op, Index) ==
    IF ~IsValidIndex(Index)
    THEN /\ UNCHANGED <<listVars, other>>
         /\ last' = Call(op, Index, 0, 0, "out_of_range", 0)
    ELSE IF EraseDerefsNull(Index)
    THEN /\ UNCHANGED <<listVars, other>>
         /\ last' = Call(op, Index, 0, 0, "ub", 0)
    ELSE /\ Store(EraseBody(Index))
         /\ last' = Call(op, Index, 0, 0, "ok", 0)

Erase(Index) ==
    /\ EraseCall("Erase", Index)
    /\ UNCHANGED <<array, input, threadVars, pc>>

\* List::PopFront (List.h:695-697).
PopFront ==
    /\ EraseCall("PopFront", 0)
    /\ UNCHANGED <<array, input, threadVars, pc>>

\* List::PopBack (List.h:700-702).
PopBack ==
    /\ EraseCall("PopBack", SubSize(size, 1))
    /\ UNCHANGED <<array, input, threadVars, pc>>

\* ------------------------------------------------------------ access
\* List::operator[] (List.h:323-332).
IndexCall(op, Index) ==
    /\ UNCHANGED <<listVars, other>>
    /\ IF ~IsValidIndex(Index)
       THEN last' = Call(op, Index, 0, 0, "out_of_range", 0)
       ELSE IF Traverse(Index) = NULL
       THEN last' = Call(op, Index, 0, 0, "ub", 0)
       ELSE last' = Call(op, Index, 0, 0, "ok", data[Traverse(Index)])

\* List::Get (List.h:389-391).
Get(Index) ==
    /\ IndexCall("Get", Index)
    /\ UNCHANGED <<array, input, threadVars, pc>>

\* List::Front (List.h:399-401).
Front ==
    /\ IndexCall("Front", 0)
    /\ UNCHANGED <<array, input, threadVars, pc>>

\* List::Back (List.h:409-411).
Back ==
    /\ IndexCall("Back", SubSize(size, 1))
    /\ UNCHANGED <<array, input, threadVars, pc>>

\* The element exchange of List::Swap on an element store (List.h:494-498).
SwapData(d, Left, Right) ==
    LET LeftNode == Traverse(Left)
        RightNode == Traverse(Right)
        Swapped == d[LeftNode]
        d1 == [d EXCEPT ![LeftNode] = d[RightNode]]
    IN [d1 EXCEPT ![RightNode] = Swapped]

\* List::Swap (List.h:479-499).
SwapCall(Left, Right) ==
    /\ UNCHANGED <<other, size, head, tail, previous, next>>
    /\ IF ~IsValidIndex(Left)
       THEN /\ last' = Call("Swap", Left, Right, 0, "out_of_range", Left)
            /\ UNCHANGED data
       ELSE IF ~IsValidIndex(Right)
       THEN /\ last' = Call("Swap", Left, Right, 0, "out_of_range", Right)
            /\ UNCHANGED data
       ELSE IF Traverse(Left) = NULL \/ Traverse(Right) = NULL
       THEN /\ last' = Call("Swap", Left, Right, 0, "ub", 0)
            /\ UNCHANGED data
       ELSE /\ last' = Call("Swap", Left, Right, 0, "ok", 0)
            /\ data' = SwapData(data, Left, Right)

Swap(Left, Right) ==
    /\ SwapCall(Left, Right)
    /\ UNCHANGED <<array, input, threadVars, pc>>

RECURSIVE ReverseLoop(_, _)
\* The loop of List::Reverse from Index on (List.h:525-527).
ReverseLoop(d, Index) ==
    IF Index < size \div 2
    THEN ReverseLoop(SwapData(d, Index, size - Index - 1), Index + 1)
    ELSE d

\* List::Reverse (List.h:524-528).
ReverseCall ==
    /\ UNCHANGED <<other, size, head, tail, previous, next>>
    /\ data' = ReverseLoop(data, 0)
    /\ last' = Call("Reverse", 0, 0, 0, "ok", 0)

Reverse ==
    /\ ReverseCall
    /\ UNCHANGED <<array, input, threadVars, pc>>

RECURSIVE ClearLoop(_, _)
\* The loop of List::Clear (List.h:544-550).
ClearLoop(L, Current) ==
    IF Current # NULL
    THEN ClearLoop(Delete(L, Current), L.next[Current])
    ELSE L

\* Clear that leaves head and tail at the deallocated nodes.
ClearLeavesHeadAndTail ==
    /\ Store([ClearLoop(Cur, head) EXCEPT !.size = 0])
    /\ last' = Call("Clear", 0, 0, 0, "ok", 0)
    /\ UNCHANGED <<array, input, threadVars, pc>>

\* List::Clear (List.h:542-555).
Clear ==
    /\ Store([ClearLoop(Cur, head) EXCEPT !.size = 0, !.head = NULL, !.tail = NULL])
    /\ last' = Call("Clear", 0, 0, 0, "ok", 0)
    /\ UNCHANGED <<array, input, threadVars, pc>>

\* What Clear() leaves (List.h:542-555).
ClearBody ==
    [ClearLoop(Cur, head) EXCEPT !.size = 0, !.head = NULL, !.tail = NULL]

\* ------------------------------------------------------------ search
\* List::begin (List.h:350-363): the Node the range-for loop copies.
begin == IF head = NULL THEN NullNode ELSE NodeAt(head)

\* ptrdiff_t of a size_t value.
ToSigned(x) == IF x > SIZE_MAX \div 2 THEN x - (SIZE_MAX + 1) ELSE x

RECURSIVE FindLoop(_, _, _)
\* The range-for loop of List::Find (List.h:421-427); the loop ends when
\* the Node copy holds the data of NIL (Node::operator==, List.h:169-171).
FindLoop(Node, Index, Value) ==
    IF Node.data = NullNode.data THEN -1
    ELSE IF Value = data[Node.data] THEN Index
    ELSE FindLoop(NodeIncrement(Node), Index + 1, Value)

\* List::Find (List.h:419-428).
ListFind(Value) == FindLoop(begin, 0, Value)

RECURSIVE FindLastLoop(_, _, _)
\* The while loop of List::FindLast (List.h:434-441).
FindLastLoop(Node, Index, Value) ==
    IF Node # NULL
    THEN IF Value = data[Node] THEN Index
         ELSE FindLastLoop(previous[Node], Index - 1, Value)
    ELSE -1

\* FindLast whose Index starts at size.
ListFindLastFromSize(Value) == FindLastLoop(tail, ToSigned(size), Value)

\* List::FindLast (List.h:431-442).
ListFindLast(Value) == FindLastLoop(tail, ToSigned(SubSize(size, 1)), Value)

\* List::Contains (List.h:445-447).
ListContains(Value) == ListFind(Value) # -1

RECURSIVE TotalLoop(_, _, _)
\* The range-for loop of List::Total (List.h:452-456).
TotalLoop(Node, Total, Value) ==
    IF Node.data = NullNode.data THEN Total
    ELSE TotalLoop(NodeIncrement(Node),
                   IF Value = data[Node.data] THEN Total + 1 ELSE Total, Value)

\* List::Total (List.h:450-458).
ListTotal(Value) == TotalLoop(begin, 0, Value)

\* -------------------------------------------------------- iteration
\* List::NIL (List.h:205), constructed by Node(nullptr), and List::end
\* (List.h:366-373).
NIL == NullNode
end == NIL

\* An equality of nodes that compares their next pointers.
NodeEqualsByNext(Left, Right) == Left.next = Right.next

\* Node::operator== (List.h:169-171).
NodeEquals(Left, Right) == Left.data = Right.data

RECURSIVE RangeLoop(_, _)
\* for (auto& Element : *this) (List.h:421, 452): Node is the loop's copy
\* of begin(), compared with end() by Node::operator!= and advanced by
\* Node::operator++; Visited collects the elements the body is given.
RangeLoop(Node, Visited) ==
    IF NodeEquals(Node, end) THEN Visited
    ELSE RangeLoop(NodeIncrement(Node), Append(Visited, data[Node.data]))

\* ---------------------------------------------------------- Sorting
(***************************************************************************)
(* Sorting works on any CollectionType with operator[].  A collection is   *)
(* given by ix, where ix[i + 1] is the address of the element that         *)
(* Collection[i] refers to, and by whether operator[] checks its index     *)
(* (List: throws) or not (raw array: undefined).  The elements live in a   *)
(* store d, address -> value.  A sort in progress is [d, outcome].         *)
(***************************************************************************)
ListCollection ==
    [checked |-> TRUE, ix |-> [i \in 1..size |-> Traverse(i - 1)]]

ArrayCollection(a) ==
    [checked |-> FALSE, ix |-> [i \in 1..Len(a) |-> i]]

InRange(C, i) == i < Len(C.ix)
Cell(C, i) == C.ix[i + 1]
Ok(S) == S.outcome = "ok"
Fail(S, C) ==
    [S EXCEPT !.outcome = IF C.checked THEN "out_of_range" ELSE "ub"]

\* The comparers with their arguments exchanged.
CompareExchanged(Comparer, Left, Right) ==
    IF Comparer = "GreaterThan" THEN Right > Left ELSE Right < Left

\* An element with a key and a tag is key * KeyBase + tag; comparers that
\* look at the key alone leave elements with equal keys equivalent.
KeyBase == 10
Key(Element) == Element \div KeyBase

\* Sorting::GreaterThan (Sorting.h:115-117) and a caller's comparers.
Compare(Comparer, Left, Right) ==
    IF Comparer = "GreaterThan" THEN Left > Right
    ELSE IF Comparer = "LessThan" THEN Left < Right
    ELSE IF Comparer = "KeyGreaterThan" THEN Key(Left) > Key(Right)
    ELSE Key(Left) < Key(Right)

\* Collection[i] = Collection[j] exchanged through a temporary
\* (Sorting.h:97-99, 103-105, 140-142).
Exchange(C, d, i, j) ==
    LET Swapped == d[Cell(C, i)]
        d1 == [d EXCEPT ![Cell(C, i)] = d[Cell(C, j)]]
    IN [d1 EXCEPT ![Cell(C, j)] = Swapped]

RECURSIVE IsSortedLoop(_, _, _, _, _)
\* The loop of Sorting::IsSorted (Sorting.h:125-130): [outcome, ret].
IsSortedLoop(Size, C, d, Comparer, Index) ==
    IF Index < SubSize(Size, 1)
    THEN IF ~InRange(C, Index + 1)
         THEN [outcome |-> IF C.checked THEN "out_of_range" ELSE "ub", ret |-> FALSE]
         ELSE IF Compare(Comparer, d[Cell(C, Index)], d[Cell(C, Index + 1)])
         THEN [outcome |-> "ok", ret |-> FALSE]
         ELSE IsSortedLoop(Size, C, d, Comparer, Index + 1)
    ELSE [outcome |-> "ok", ret |-> TRUE]

\* Sorting::IsSorted (Sorting.h:124-131).
SortingIsSorted(Size, C, d, Comparer) == IsSortedLoop(Size, C, d, Comparer, 0)

RECURSIVE BubbleInner(_, _, _, _, _, _, _)
\* The inner loop of Sorting::BubbleSort (Sorting.h:138-145).
BubbleInner(Size, C, Comparer, Left, Right, S, HasSwapped) ==
    IF Right < SubSize(SubSize(Size, Left), 1)
    THEN IF ~InRange(C, Right + 1)
         THEN [S |-> Fail(S, C), HasSwapped |-> HasSwapped]
         ELSE IF Compare(Comparer, S.d[Cell(C, Right)], S.d[Cell(C, Right + 1)])
         THEN BubbleInner(Size, C, Comparer, Left, Right + 1,
                          [S EXCEPT !.d = Exchange(C, S.d, Right, Right + 1)], TRUE)
         ELSE BubbleInner(Size, C, Comparer, Left, Right + 1, S, HasSwapped)
    ELSE [S |-> S, HasSwapped |-> HasSwapped]

RECURSIVE BubbleOuter(_, _, _, _, _)
\* The outer loop of Sorting::BubbleSort (Sorting.h:136-149).
BubbleOuter(Size, C, Comparer, Left, S) ==
    IF Left < SubSize(Size, 1)
    THEN LET r == BubbleInner(Size, C, Comparer, Left, 0, S, FALSE)
         IN IF ~Ok(r.S) \/ ~r.HasSwapped THEN r.S
            ELSE BubbleOuter(Size, C, Comparer, Left + 1, r.S)
    ELSE S

\* Sorting::BubbleSort (Sorting.h:135-150).
SortingBubbleSort(Size, C, d, Comparer) ==
    BubbleOuter(Size, C, Comparer, 0, [d |-> d, outcome |-> "ok"])

RECURSIVE MergeLoop(_, _, _, _, _, _, _, _)
\* The three loops of Sorting::Merge (Sorting.h:51-71); Left and Right are
\* 0-based copies kept as sequences.
MergeLoop(C, Comparer, Left, Right, Begin, End, Middle, d) ==
    IF Begin < Len(Left) /\ End < Len(Right)
    THEN IF ~Compare(Comparer, Left[Begin + 1], Right[End + 1])
         THEN MergeLoop(C, Comparer, Left, Right, Begin + 1, End, Middle + 1,
                        [d EXCEPT ![Cell(C, Middle)] = Left[Begin + 1]])
         ELSE MergeLoop(C, Comparer, Left, Right, Begin, End + 1, Middle + 1,
                        [d EXCEPT ![Cell(C, Middle)] = Right[End + 1]])
    ELSE IF Begin < Len(Left)
    THEN MergeLoop(C, Comparer, Left, Right, Begin + 1, End, Middle + 1,
                   [d EXCEPT ![Cell(C, Middle)] = Left[Begin + 1]])
    ELSE IF End < Len(Right)
    THEN MergeLoop(C, Comparer, Left, Right, Begin, End + 1, Middle + 1,
                   [d EXCEPT ![Cell(C, Middle)] = Right[End + 1]])
    ELSE d

\* Sorting::Merge (Sorting.h:37-76).
Merge(C, Begin, Middle, End, Comparer, S) ==
    IF ~InRange(C, End) THEN Fail(S, C)
    ELSE LET LeftSize == Middle - Begin + 1
             Left == [Index \in 1..LeftSize |-> S.d[Cell(C, Begin + Index - 1)]]
             RightSize == End - Middle
             Right == [Index \in 1..RightSize |-> S.d[Cell(C, Middle + Index)]]
         IN [S EXCEPT !.d = MergeLoop(C, Comparer, Left, Right, 0, 0, Begin, S.d)]

RECURSIVE RecursiveMergeSort(_, _, _, _, _)
\* Sorting::RecursiveMergeSort (Sorting.h:25-33).
RecursiveMergeSort(C, Begin, End, Comparer, S) ==
    IF Begin >= End \/ ~Ok(S) THEN S
    ELSE LET Middle == (Begin + End) \div 2
             S1 == RecursiveMergeSort(C, Begin, Middle, Comparer, S)
             S2 == RecursiveMergeSort(C, Middle + 1, End, Comparer, S1)
         IN IF Ok(S2) THEN Merge(C, Begin, Middle, End, Comparer, S2) ELSE S2

\* Sorting::MergeSort (Sorting.h:154-156).
SortingMergeSort(Size, C, d, Comparer) ==
    RecursiveMergeSort(C, 0, SubSize(Size, 1), Comparer, [d |-> d, outcome |-> "ok"])

RECURSIVE PartitionLoop(_, _, _, _, _, _, _)
\* The loop of Sorting::Partition (Sorting.h:95-102): [d, PivotIndex].
\* Pivot is a const Type&: the address of the element it is bound to.
PartitionLoop(C, High, Pivot, Comparer, Index, PivotIndex, d) ==
    IF Index < High
    THEN IF ~Compare(Comparer, d[Cell(C, Index)], d[Pivot])
         THEN PartitionLoop(C, High, Pivot, Comparer, Index + 1, PivotIndex + 1,
                            Exchange(C, d, PivotIndex, Index))
         ELSE PartitionLoop(C, High, Pivot, Comparer, Index + 1, PivotIndex, d)
    ELSE [d |-> d, PivotIndex |-> PivotIndex]

\* Sorting::Partition (Sorting.h:93-107): [d, PivotIndex].
Partition(C, Low, High, Pivot, Comparer, d) ==
    LET r == PartitionLoop(C, High, Pivot, Comparer, Low, Low, d)
    IN [d |-> Exchange(C, r.d, r.PivotIndex, High), PivotIndex |-> r.PivotIndex]

\* The comparer Partition runs with when RecursiveQuickSort calls it
\* (Sorting.h:84: the call passes no comparer, so the default applies).
PartitionComparer(Comparer) == "GreaterThan"

RECURSIVE RecursiveQuickSort(_, _, _, _, _)
\* Sorting::RecursiveQuickSort (Sorting.h:80-89).
RecursiveQuickSort(C, Low, High, Comparer, S) ==
    IF Low >= High \/ ~Ok(S) THEN S
    ELSE IF ~InRange(C, High) THEN Fail(S, C)
    ELSE LET p == Partition(C, Low, High, Cell(C, High),
                            PartitionComparer(Comparer), S.d)
             S0 == [S EXCEPT !.d = p.d]
             S1 == IF p.PivotIndex > 0
                   THEN RecursiveQuickSort(C, Low, p.PivotIndex - 1, Comparer, S0)
                   ELSE S0
         IN RecursiveQuickSort(C, p.PivotIndex + 1, High, Comparer, S1)

\* Sorting::QuickSort (Sorting.h:160-162).
SortingQuickSort(Size, C, d, Comparer) ==
    RecursiveQuickSort(C, 0, SubSize(Size, 1), Comparer, [d |-> d, outcome |-> "ok"])

\* Algorithms::Sort (Algorithms.h:200-210).
AlgorithmsSort(Size, C, d, Comparer) == SortingQuickSort(Size, C, d, Comparer)

Algorithms == {"BubbleSort", "MergeSort", "QuickSort", "Sort"}

SortBy(Algorithm, Size, C, d, Comparer) ==
    CASE Algorithm = "BubbleSort" -> SortingBubbleSort(Size, C, d, Comparer)
      [] Algorithm = "MergeSort" -> SortingMergeSort(Size, C, d, Comparer)
      [] Algorithm = "QuickSort" -> SortingQuickSort(Size, C, d, Comparer)
      [] Algorithm = "Sort" -> AlgorithmsSort(Size, C, d, Comparer)

\* ------------------------------------------------- List sorting methods
\* List::BubbleSort / MergeSort / QuickSort (List.h:509-521): Sorting on
\* (size, *this) with the default comparer.
ListSort(Algorithm) ==
    LET S == SortBy(Algorithm, size, ListCollection, data, "GreaterThan")
    IN /\ data' = S.d
       /\ last' = SortCall(Algorithm, size, "list", "GreaterThan", S.outcome)
       /\ UNCHANGED <<other, size, head, tail, previous, next, array, input, threadVars>>

\* List::IsSorted (List.h:461-463).
IsSorted ==
    /\ LET r == SortingIsSorted(size, ListCollection, data, "GreaterThan")
       IN last' = BoolCall("IsSorted", 0, r.outcome, r.ret)
    /\ UNCHANGED <<listVars, other>>
    /\ UNCHANGED <<array, input, threadVars, pc>>

BubbleSort == ListSort("BubbleSort") /\ pc' = pc
MergeSort == ListSort("MergeSort") /\ pc' = pc
QuickSort == ListSort("QuickSort") /\ pc' = pc

\* --------------------------------------------------------- list model
EmptyHeap == [n \in NodeIds |-> NULL]

\* List::List() (List.h:249-250).
InitList ==
    /\ size = 0
    /\ head = NULL
    /\ tail = NULL
    /\ previous = EmptyHeap
    /\ data = [n \in NodeIds |-> NoData]
    /\ next = EmptyHeap

Init ==
    /\ InitList
    /\ array = <<>>
    /\ input = <<>>
    /\ pc = "ops"
    /\ last = Call("List", 0, 0, 0, "ok", 0)
    /\ other = EmptyObject
    /\ InitThread

Next ==
    \/ \E Index \in InsertArgs, Value \in Values : size < MaxSize /\ Insert(Index, Value)
    \/ \E Index \in InsertArgs, Value \in Values : size < MaxSize /\ Emplace(Index, Value)
    \/ \E Value \in Values : size < MaxSize /\ PushFront(Value)
    \/ \E Value \in Values : size < MaxSize /\ PushBack(Value)
    \/ \E Index \in IndexArgs : Erase(Index)
    \/ PopFront
    \/ PopBack
    \/ \E Index \in IndexArgs : Get(Index)
    \/ Front
    \/ Back
    \/ \E Left \in IndexArgs, Right \in IndexArgs : Swap(Left, Right)
    \/ Reverse
    \/ Clear
    \/ BubbleSort
    \/ MergeSort
    \/ QuickSort
    \/ IsSorted

Spec == Init /\ [][Next]_vars

\* Lists built by insertion alone, up to one element more than MaxSize.
BuildNext ==
    \/ \E Index \in InsertArgs, Value \in Values : Insert(Index, Value)
    \/ \E Index \in InsertArgs, Value \in Values : Emplace(Index, Value)
    \/ \E Value \in Values : PushFront(Value)
    \/ \E Value \in Values : PushBack(Value)

BuildSpec == Init /\ [][BuildNext]_vars

\* ------------------------------------------------------ sorting model
RECURSIVE SeqsUpTo(_, _)
SeqsUpTo(S, n) ==
    IF n = 0 THEN {<<>>}
    ELSE LET Shorter == SeqsUpTo(S, n - 1)
         IN Shorter \cup {Append(s, x) : s \in {t \in Shorter : Len(t) = n - 1}, x \in S}

SortInit ==
    /\ InitList
    /\ input \in SeqsUpTo(SortValues, MaxLen) \ {<<>>}
    /\ array = input
    /\ pc = "construct"
    /\ last = Call("List", 0, 0, 0, "ok", 0)
    /\ other = EmptyObject
    /\ InitThread

\* One iteration of List::List(const std::initializer_list<Type>&)
\* (List.h:267-271).
Construct ==
    /\ pc = "construct"
    /\ size < Len(input)
    /\ InsertCall("PushBack", size, input[size + 1])
    /\ UNCHANGED <<array, input, threadVars, pc>>

\* Sorting::<Algorithm>(Size, array, Comparer) on the raw array.
SortArray(Algorithm, Size, Comparer) ==
    /\ pc = "construct"
    /\ size = 0
    /\ Size \in 1..Len(array)
    /\ LET S == SortBy(Algorithm, Size, ArrayCollection(array), array, Comparer)
       IN /\ array' = S.d
          /\ last' = SortCall(Algorithm, Size, "array", Comparer, S.outcome)
    /\ pc' = "sorted"
    /\ UNCHANGED <<other, size, head, tail, previous, data, next, input, threadVars>>

\* Sorting::<Algorithm>(list.Size(), list, Comparer) on the constructed list.
SortList(Algorithm, Comparer) ==
    /\ pc = "construct"
    /\ size = Len(input)
    /\ LET S == SortBy(Algorithm, size, ListCollection, data, Comparer)
       IN /\ data' = S.d
          /\ last' = SortCall(Algorithm, size, "list", Comparer, S.outcome)
    /\ pc' = "sorted"
    /\ UNCHANGED <<other, size, head, tail, previous, next, array, input, threadVars>>

\* Values searched for: every element value and one that no list holds.
SearchValues == SortValues \cup {2}

\* Find, FindLast, Contains and Total on the constructed list.
Find(Value) ==
    /\ pc = "construct"
    /\ size = Len(input)
    /\ last' = Call("Find", 0, 0, Value, "ok", ListFind(Value))
    /\ pc' = "searched"
    /\ UNCHANGED <<listVars, other>>
    /\ UNCHANGED <<array, input, threadVars>>

FindLast(Value) ==
    /\ pc = "construct"
    /\ size = Len(input)
    /\ last' = Call("FindLast", 0, 0, Value, "ok", ListFindLast(Value))
    /\ pc' = "searched"
    /\ UNCHANGED <<listVars, other>>
    /\ UNCHANGED <<array, input, threadVars>>

Contains(Value) ==
    /\ pc = "construct"
    /\ size = Len(input)
    /\ last' = BoolCall("Contains", Value, "ok", ListContains(Value))
    /\ pc' = "searched"
    /\ UNCHANGED <<listVars, other>>
    /\ UNCHANGED <<array, input, threadVars>>

Total(Value) ==
    /\ pc = "construct"
    /\ size = Len(input)
    /\ last' = Call("Total", 0, 0, Value, "ok", ListTotal(Value))
    /\ pc' = "searched"
    /\ UNCHANGED <<listVars, other>>
    /\ UNCHANGED <<array, input, threadVars>>

SortNext ==
    \/ Construct
    \/ \E Value \in SearchValues : Find(Value)
    \/ \E Value \in SearchValues : FindLast(Value)
    \/ \E Value \in SearchValues : Contains(Value)
    \/ \E Value \in SearchValues : Total(Value)
    \/ \E Algorithm \in Algorithms, Size \in 1..MaxLen, Comparer \in Comparers :
           SortArray(Algorithm, Size, Comparer)
    \/ \E Algorithm \in Algorithms, Comparer \in Comparers :
           SortList(Algorithm, Comparer)

SortSpec == SortInit /\ [][SortNext]_vars

\* ------------------------------------------------------------ Thread
\* Thread.h. The worker is the function of the std::thread made by the
\* constructor. The owner is the thread that holds the Thread object: it
\* calls Run, Cancel and Join one after the other and at last destroys
\* the object. The canceller is one more thread that calls Cancel, which
\* touches atomics only, while the object exists. Each step is one atomic
\* load or store, or one call on the std::thread.

\* What Execution may return: a code of its own, or THREAD_INCOMPLETE from
\* CHECK_THREAD when it has seen the cancellation.
ExitCodes == {0, 1}

\* The object exists until its destructor has returned.
Destroyed == owner = "destroyed"

\* An atomic load of a Boolean field by the worker. Once the object is
\* destroyed the load reads released storage and may give either value.
WorkerLoad(Field) == IF Destroyed THEN BOOLEAN ELSE {Field}

\* Thread::IsCancelled and Thread::IsComplete.
IsCancelled == cancelled
IsComplete == ~cancelled /\ complete

\* What a thread step leaves alone.
ThreadFrame == UNCHANGED <<listVars, array, input, pc, last, other>>

Return(op, ret) == returned' = [op |-> op, ret |-> ret]

\* while (!started.load()) { yield(); } -- the load that ends the loop.
WorkerSpin ==
    /\ worker = "spin"
    /\ TRUE \in WorkerLoad(started)
    /\ worker' = "check"
    /\ UNCHANGED <<code, started, cancelled, complete, thread, owner, canceller, returned>>
    /\ ThreadFrame

\* The same step without the test of cancelled that follows the loop.
WorkerCheckIgnoresCancelled ==
    /\ worker = "check"
    /\ worker' = "execute"
    /\ UNCHANGED <<code, started, cancelled, complete, thread, owner, canceller, returned>>
    /\ ThreadFrame

\* if (cancelled.load()) { return; } and, if not, Execution is invoked.
WorkerCheck ==
    /\ worker = "check"
    /\ \E Cancelled \in WorkerLoad(cancelled) :
          worker' = IF Cancelled THEN "done" ELSE "execute"
    /\ UNCHANGED <<code, started, cancelled, complete, thread, owner, canceller, returned>>
    /\ ThreadFrame

\* code.store(Execution(*this)): Execution returns and its code is stored.
WorkerExecute ==
    /\ worker = "execute"
    /\ \E Exit \in ExitCodes \cup
                   (IF TRUE \in WorkerLoad(cancelled) THEN {THREAD_INCOMPLETE} ELSE {}) :
          code' = Exit
    /\ worker' = "store"
    /\ UNCHANGED <<started, cancelled, complete, thread, owner, canceller, returned>>
    /\ ThreadFrame

\* complete.store(!cancelled.load()), and the thread function returns.
WorkerComplete ==
    /\ worker = "store"
    /\ \E Cancelled \in WorkerLoad(cancelled) : complete' = ~Cancelled
    /\ worker' = "done"
    /\ UNCHANGED <<code, started, cancelled, thread, owner, canceller, returned>>
    /\ ThreadFrame

\* Run: if (!started.load()), else return false.
RunLoad ==
    /\ owner = "idle"
    /\ IF started
       THEN owner' = "idle" /\ Return("Run", FALSE)
       ELSE owner' = "run_store" /\ UNCHANGED returned
    /\ UNCHANGED <<code, started, cancelled, complete, thread, worker, canceller>>
    /\ ThreadFrame

\* Run: started.store(true).
RunStore ==
    /\ owner = "run_store"
    /\ started' = TRUE
    /\ owner' = "run_detach"
    /\ UNCHANGED <<code, cancelled, complete, thread, worker, canceller, returned>>
    /\ ThreadFrame

\* Run: thread.detach(); return true.
RunDetach ==
    /\ owner = "run_detach"
    /\ thread = "joinable"
    /\ thread' = "detached"
    /\ owner' = "idle"
    /\ Return("Run", TRUE)
    /\ UNCHANGED <<code, started, cancelled, complete, worker, canceller>>
    /\ ThreadFrame

\* Cancel, called by the thread whose position is at: cancelled.load().
CancelLoadCancelled(at, next_at) ==
    /\ at = "idle"
    /\ ~Destroyed
    /\ IF cancelled
       THEN next_at = "idle" /\ Return("Cancel", FALSE)
       ELSE next_at = "cancel_complete" /\ UNCHANGED returned
    /\ UNCHANGED <<code, started, cancelled, complete, thread, worker>>
    /\ ThreadFrame

\* Cancel: complete.load().
CancelLoadComplete(at, next_at) ==
    /\ at = "cancel_complete"
    /\ IF complete
       THEN next_at = "idle" /\ Return("Cancel", FALSE)
       ELSE next_at = "cancel_store" /\ UNCHANGED returned
    /\ UNCHANGED <<code, started, cancelled, complete, thread, worker>>
    /\ ThreadFrame

\* Cancel: cancelled.store(true); return true.
CancelStore(at, next_at) ==
    /\ at = "cancel_store"
    /\ cancelled' = TRUE
    /\ next_at = "idle"
    /\ Return("Cancel", TRUE)
    /\ UNCHANGED <<code, started, complete, thread, worker>>
    /\ ThreadFrame

\* Cancel called by the owner.
Cancel ==
    /\ \/ CancelLoadCancelled(owner, owner')
       \/ CancelLoadComplete(owner, owner')
       \/ CancelStore(owner, owner')
    /\ UNCHANGED canceller

\* Cancel called by the other thread.
CancelFromOtherThread ==
    /\ \/ CancelLoadCancelled(canceller, canceller')
       \/ CancelLoadComplete(canceller, canceller')
       \/ CancelStore(canceller, canceller')
    /\ UNCHANGED owner

\* Join: if (cancelled.load() || complete.load()) return false.
JoinLoadCancelled ==
    /\ owner = "idle"
    /\ IF cancelled
       THEN owner' = "idle" /\ Return("Join", FALSE)
       ELSE owner' = "join_complete" /\ UNCHANGED returned
    /\ UNCHANGED <<code, started, cancelled, complete, thread, worker, canceller>>
    /\ ThreadFrame

JoinLoadComplete ==
    /\ owner = "join_complete"
    /\ IF complete
       THEN owner' = "idle" /\ Return("Join", FALSE)
       ELSE owner' = "join_started" /\ UNCHANGED returned
    /\ UNCHANGED <<code, started, cancelled, complete, thread, worker, canceller>>
    /\ ThreadFrame

\* Join: if (!started.load()).
JoinLoadStarted ==
    /\ owner = "join_started"
    /\ owner' = IF started THEN "join_spin" ELSE "join_store"
    /\ UNCHANGED <<code, started, cancelled, complete, thread, worker, canceller, returned>>
    /\ ThreadFrame

\* Join: started.store(true).
JoinStore ==
    /\ owner = "join_store"
    /\ started' = TRUE
    /\ owner' = "join_wait"
    /\ UNCHANGED <<code, cancelled, complete, thread, worker, canceller, returned>>
    /\ ThreadFrame

\* Join: thread.join() returns once the thread function has returned;
\* return true.
JoinWait ==
    /\ owner = "join_wait"
    /\ thread = "joinable"
    /\ worker = "done"
    /\ thread' = "joined"
    /\ owner' = "idle"
    /\ Return("Join", TRUE)
    /\ UNCHANGED <<code, started, cancelled, complete, worker, canceller>>
    /\ ThreadFrame

\* Join: while (!cancelled.load() && !complete.load()) { yield(); } -- the
\* load that ends the loop; return true.
JoinSpin ==
    /\ owner = "join_spin"
    /\ cancelled \/ complete
    /\ owner' = "idle"
    /\ Return("Join", TRUE)
    /\ UNCHANGED <<code, started, cancelled, complete, thread, worker, canceller>>
    /\ ThreadFrame

\* ~Thread: if (thread.joinable()); the destructor runs when no other
\* thread is inside a call on the object.
DestructorJoinable ==
    /\ owner = "idle"
    /\ canceller = "idle"
    /\ owner' = IF thread = "joinable" THEN "destructor_started" ELSE "destroyed"
    /\ UNCHANGED <<code, started, cancelled, complete, thread, worker, canceller, returned>>
    /\ ThreadFrame

\* ~Thread: started.store(true).
DestructorStoreStarted ==
    /\ owner = "destructor_started"
    /\ started' = TRUE
    /\ owner' = "destructor_cancelled"
    /\ UNCHANGED <<code, cancelled, complete, thread, worker, canceller, returned>>
    /\ ThreadFrame

\* ~Thread: cancelled.store(true).
DestructorStoreCancelled ==
    /\ owner = "destructor_cancelled"
    /\ cancelled' = TRUE
    /\ owner' = "destructor_join"
    /\ UNCHANGED <<code, started, complete, thread, worker, canceller, returned>>
    /\ ThreadFrame

\* ~Thread: thread.join(), after which the destructor returns.
DestructorJoin ==
    /\ owner = "destructor_join"
    /\ worker = "done"
    /\ thread' = "joined"
    /\ owner' = "destroyed"
    /\ UNCHANGED <<code, started, cancelled, complete, worker, canceller, returned>>
    /\ ThreadFrame

ThreadNext ==
    \/ WorkerSpin
    \/ WorkerCheck
    \/ WorkerExecute
    \/ WorkerComplete
    \/ RunLoad
    \/ RunStore
    \/ RunDetach
    \/ Cancel
    \/ CancelFromOtherThread
    \/ JoinLoadCancelled
    \/ JoinLoadComplete
    \/ JoinLoadStarted
    \/ JoinStore
    \/ JoinWait
    \/ JoinSpin
    \/ DestructorJoinable
    \/ DestructorStoreStarted
    \/ DestructorStoreCancelled
    \/ DestructorJoin

ThreadSpec == Init /\ [][ThreadNext]_vars

\* ---------------------------------------------------- equivalent keys
KeyComparers == {"KeyGreaterThan", "KeyLessThan"}

\* The collections of up to MaxLen elements with keys from Values, each
\* element tagged with its position.
Tagged(Keys) == [i \in 1..Len(Keys) |-> Keys[i] * KeyBase + i]

StableInit ==
    /\ InitList
    /\ input \in {Tagged(Keys) : Keys \in SeqsUpTo(Values, MaxLen) \ {<<>>}}
    /\ array = input
    /\ pc = "construct"
    /\ last = Call("List", 0, 0, 0, "ok", 0)
    /\ other = EmptyObject
    /\ InitThread

StableNext ==
    \/ Construct
    \/ \E Algorithm \in {"BubbleSort", "MergeSort"}, Size \in 1..MaxLen,
          Comparer \in KeyComparers : SortArray(Algorithm, Size, Comparer)
    \/ \E Algorithm \in {"BubbleSort", "MergeSort"}, Comparer \in KeyComparers :
           SortList(Algorithm, Comparer)

StableSpec == StableInit /\ [][StableNext]_vars

\* ------------------------------------------------- call sequences
(***************************************************************************)
(* Fixed call sequences on one list: the values of input are pushed, at    *)
(* the back (Construct) or at the front (PushFrontNext), and the full list *)
(* is then reversed twice, or emptied by rounds of Back, PopBack or of     *)
(* Front, PopFront.  Lists grow up to HeapSize elements here.              *)
(***************************************************************************)
SequenceInit ==
    /\ InitList
    /\ input \in SeqsUpTo(Values, HeapSize)
    /\ array = <<>>
    /\ pc = "construct"
    /\ last = Call("List", 0, 0, 0, "ok", 0)
    /\ other = EmptyObject
    /\ InitThread

\* PushFront of the next value of input (List.h:592-594).
PushFrontNext ==
    /\ (pc = "construct" /\ size = 0) \/ pc = "pushfront"
    /\ size < Len(input)
    /\ InsertCall("PushFront", 0, input[size + 1])
    /\ pc' = "pushfront"
    /\ UNCHANGED <<array, input, threadVars>>

\* A range-for loop over the full list; the call records the number of
\* times the loop incremented its node.
RangeFor ==
    /\ pc \in {"construct", "pushfront"}
    /\ size = Len(input)
    /\ last' = Call("RangeFor", 0, 0, 0, "ok", Len(RangeLoop(begin, <<>>)))
    /\ pc' = "iterated"
    /\ UNCHANGED <<listVars, other, array, input, threadVars>>

\* The first and the second Reverse() of the full list (List.h:524-528).
ReverseOnce ==
    /\ pc = "construct"
    /\ size = Len(input)
    /\ ReverseCall
    /\ pc' = "reversed1"
    /\ UNCHANGED <<array, input, threadVars>>

ReverseTwice ==
    /\ pc = "reversed1"
    /\ ReverseCall
    /\ pc' = "reversed2"
    /\ UNCHANGED <<array, input, threadVars>>

\* One round of Back(), PopBack() (List.h:409-411, 700-702).
BackRound ==
    /\ (pc = "construct" /\ size = Len(input)) \/ pc = "popback"
    /\ size > 0
    /\ IndexCall("Back", SubSize(size, 1))
    /\ pc' = "back"
    /\ UNCHANGED <<array, input, threadVars>>

PopBackRound ==
    /\ pc = "back"
    /\ EraseCall("PopBack", SubSize(size, 1))
    /\ pc' = "popback"
    /\ UNCHANGED <<array, input, threadVars>>

\* One round of Front(), PopFront() (List.h:399-401, 695-697).
FrontRound ==
    /\ (pc = "pushfront" /\ size = Len(input)) \/ pc = "popfront"
    /\ size > 0
    /\ IndexCall("Front", 0)
    /\ pc' = "front"
    /\ UNCHANGED <<array, input, threadVars>>

PopFrontRound ==
    /\ pc = "front"
    /\ EraseCall("PopFront", 0)
    /\ pc' = "popfront"
    /\ UNCHANGED <<array, input, threadVars>>

SequenceNext ==
    \/ Construct
    \/ PushFrontNext
    \/ ReverseOnce
    \/ ReverseTwice
    \/ BackRound
    \/ PopBackRound
    \/ FrontRound
    \/ PopFrontRound
    \/ RangeFor

SequenceSpec == SequenceInit /\ [][SequenceNext]_vars

\* ------------------------------------------------------ two objects
(***************************************************************************)
(* Two List objects on one heap.  The member functions above act on the    *)
(* object held in size, head and tail; the second object is held in other. *)
(* SwitchReceiver makes the second object the receiver of the next calls.  *)
(***************************************************************************)
\* The elements of the second object in head-to-tail order.
OtherElements ==
    [i \in 1..other.size |-> ValueOf(data, Walk(other.head, i - 1))]

\* The nodes reached from h over the next links.
NodesFrom(h) == Range(Reach(Cur, h, {}))

\* PushBack on the list object L: Insert with Index = size
\* (List.h:566-576, 597-599).
PushBackOn(L, Value) ==
    LET Free == {n \in NodeIds : L.data[n] = NoData}
        New == CHOOSE n \in Free : \A m \in Free : n <= m
    IN IF L.size = 0
       THEN [L EXCEPT !.data[New] = Value, !.previous[New] = NULL,
                      !.next[New] = NULL, !.head = New, !.tail = New,
                      !.size = L.size + 1]
       ELSE [L EXCEPT !.data[New] = Value, !.previous[New] = L.tail,
                      !.next[New] = NULL, !.next[L.tail] = New,
                      !.tail = New, !.size = L.size + 1]

\* Copied.begin() (List.h:357-363) on the heap of L.
BeginOf(Copied, L) ==
    IF Copied.head = NULL THEN NullNode
    ELSE [previous |-> L.previous[Copied.head], data |-> Copied.head,
          next |-> L.next[Copied.head]]

RECURSIVE CopyLoop(_, _)
\* for (auto& Element : Copied) PushBack(Element) (List.h:275-277,
\* 301-303); Node is the loop's Node copy, advanced by Node::operator++.
CopyLoop(L, Node) ==
    IF Node.data = NullNode.data THEN L
    ELSE LET L1 == PushBackOn(L, L.data[Node.data])
         IN CopyLoop(L1, IF Node.next = NULL THEN NullNode
                         ELSE [previous |-> L1.previous[Node.next],
                               data |-> Node.next,
                               next |-> L1.next[Node.next]])

\* The position after a call that changes a list, and after an assignment.
AfterChange == IF pc = "objects" THEN "changed" ELSE "done"
CanChange == pc \in {"objects", "assigned"}
CanAssign == pc \in {"objects", "changed"}

ObjectsInit ==
    /\ InitList
    /\ input \in SeqsUpTo(Values, MaxCopied)
    /\ array = <<>>
    /\ pc = "construct"
    /\ last = Call("List", 0, 0, 0, "ok", 0)
    /\ other = EmptyObject
    /\ InitThread

\* A copy constructor that copies size, head and tail and no node.
CopyConstructShallow ==
    /\ pc = "construct"
    /\ size = Len(input)
    /\ Cardinality(FreeNodes) >= size
    /\ other' = [size |-> size, head |-> head, tail |-> tail]
    /\ last' = Call("CopyConstruct", 0, 0, 0, "ok", 0)
    /\ pc' = "objects"
    /\ UNCHANGED <<listVars, array, input, threadVars>>

\* List::List(const List&) (List.h:274-278): the new object is the second
\* object.
CopyConstruct ==
    /\ pc = "construct"
    /\ size = Len(input)
    /\ Cardinality(FreeNodes) >= size
    /\ LET New == CopyLoop([Cur EXCEPT !.size = 0, !.head = NULL, !.tail = NULL],
                           begin)
       IN /\ other' = [size |-> New.size, head |-> New.head, tail |-> New.tail]
          /\ previous' = New.previous
          /\ data' = New.data
          /\ next' = New.next
    /\ last' = Call("CopyConstruct", 0, 0, 0, "ok", 0)
    /\ pc' = "objects"
    /\ UNCHANGED <<size, head, tail, array, input, threadVars>>

\* List::operator=(const List&) with the second object as Copied
\* (List.h:296-305).
CopyAssign ==
    /\ CanAssign
    /\ Cardinality(FreeNodes) + size >= other.size
    /\ Store(CopyLoop(ClearBody, BeginOf(other, ClearBody)))
    /\ last' = Call("CopyAssign", 0, 0, 0, "ok", 0)
    /\ pc' = "assigned"
    /\ UNCHANGED <<array, input, threadVars>>

\* List::operator=(const List&) with this as Copied (List.h:297-299).
CopyAssignSelf ==
    /\ CanAssign
    /\ last' = Call("CopyAssignSelf", 0, 0, 0, "ok", 0)
    /\ pc' = "assigned"
    /\ UNCHANGED <<listVars, other, array, input, threadVars>>

\* A move constructor that leaves Moved as it was.
MoveConstructKeepsMoved ==
    /\ pc = "construct"
    /\ size = Len(input)
    /\ other' = [size |-> size, head |-> head, tail |-> tail]
    /\ last' = Call("MoveConstruct", 0, 0, 0, "ok", 0)
    /\ pc' = "objects"
    /\ UNCHANGED <<listVars, array, input, threadVars>>

\* List::List(List&&) (List.h:281-285): the new object is the second
\* object, this is Moved.
MoveConstruct ==
    /\ pc = "construct"
    /\ size = Len(input)
    /\ other' = [size |-> size, head |-> head, tail |-> tail]
    /\ size' = 0
    /\ head' = NULL
    /\ tail' = NULL
    /\ last' = Call("MoveConstruct", 0, 0, 0, "ok", 0)
    /\ pc' = "objects"
    /\ UNCHANGED <<previous, data, next, array, input, threadVars>>

\* List::operator=(List&&) with the second object as Moved (List.h:308-320).
MoveAssign ==
    /\ CanAssign
    /\ StoreBoth([ClearBody EXCEPT !.size = other.size, !.head = other.head,
                                   !.tail = other.tail],
                 EmptyObject)
    /\ last' = Call("MoveAssign", 0, 0, 0, "ok", 0)
    /\ pc' = "assigned"
    /\ UNCHANGED <<array, input, threadVars>>

\* The two objects exchange roles: the next calls are calls on what was the
\* second object.
SwitchReceiver ==
    /\ pc \in {"objects", "changed", "assigned"}
    /\ StoreBoth([Cur EXCEPT !.size = other.size, !.head = other.head,
                             !.tail = other.tail],
                 [size |-> size, head |-> head, tail |-> tail])
    /\ last' = Call("SwitchReceiver", 0, 0, 0, "ok", 0)
    /\ UNCHANGED <<array, input, pc, threadVars>>

\* Insert, Erase, Set, Swap and Clear on one of the two objects.
ObjectInsert(Index, Value) ==
    /\ CanChange
    /\ InsertCall("Insert", Index, Value)
    /\ pc' = AfterChange
    /\ UNCHANGED <<array, input, threadVars>>

ObjectErase(Index) ==
    /\ CanChange
    /\ EraseCall("Erase", Index)
    /\ pc' = AfterChange
    /\ UNCHANGED <<array, input, threadVars>>

\* List::Set (List.h:474-476).
ObjectSet(Index, Value) ==
    /\ CanChange
    /\ IF ~IsValidIndex(Index)
       THEN /\ last' = Call("Set", Index, 0, Value, "out_of_range", 0)
            /\ UNCHANGED data
       ELSE IF Traverse(Index) = NULL
       THEN /\ last' = Call("Set", Index, 0, Value, "ub", 0)
            /\ UNCHANGED data
       ELSE /\ last' = Call("Set", Index, 0, Value, "ok", 0)
            /\ data' = [data EXCEPT ![Traverse(Index)] = Value]
    /\ pc' = AfterChange
    /\ UNCHANGED <<other, size, head, tail, previous, next, array, input,
                   threadVars>>

ObjectSwap(Left, Right) ==
    /\ CanChange
    /\ SwapCall(Left, Right)
    /\ pc' = AfterChange
    /\ UNCHANGED <<array, input, threadVars>>

ObjectClear ==
    /\ CanChange
    /\ Store(ClearBody)
    /\ last' = Call("Clear", 0, 0, 0, "ok", 0)
    /\ pc' = AfterChange
    /\ UNCHANGED <<array, input, threadVars>>

ObjectsNext ==
    \/ Construct
    \/ CopyConstruct
    \/ MoveConstruct
    \/ CopyAssign
    \/ CopyAssignSelf
    \/ MoveAssign
    \/ SwitchReceiver
    \/ \E Index \in 0..size, Value \in Values : ObjectInsert(Index, Value)
    \/ \E Index \in 0..size : ObjectErase(Index)
    \/ \E Index \in 0..size, Value \in Values : ObjectSet(Index, Value)
    \/ \E Left \in 0..size, Right \in 0..size : Left <= Right /\ ObjectSwap(Left, Right)
    \/ ObjectClear

ObjectsSpec == ObjectsInit /\ [][ObjectsNext]_vars

\* ------------------------------------------------------------ Stack
(***************************************************************************)
(* Stack<Type> (Stack.h): its one member, the List data, is the list of    *)
(* size, head and tail.                                                    *)
(***************************************************************************)
\* Stack::Push (Stack.h:98-100).
Push(Value) ==
    /\ InsertCall("Push", size, Value)
    /\ UNCHANGED <<array, input, pc, threadVars>>

\* Stack::Peek (Stack.h:51-56).
Peek ==
    /\ IF IsEmpty
       THEN last' = Call("Peek", 0, 0, 0, "stack_is_empty", 0)
       ELSE IF Traverse(SubSize(size, 1)) = NULL
       THEN last' = Call("Peek", 0, 0, 0, "ub", 0)
       ELSE last' = Call("Peek", 0, 0, 0, "ok", data[Traverse(SubSize(size, 1))])
    /\ UNCHANGED <<listVars, other, array, input, pc, threadVars>>

\* A Pop that takes the element at the front, as Stack::PopLast does.
PopFromFront ==
    /\ IF IsEmpty
       THEN /\ last' = Call("Pop", 0, 0, 0, "stack_is_empty", 0)
            /\ UNCHANGED <<listVars, other>>
       ELSE IF Traverse(0) = NULL \/ EraseDerefsNull(0)
       THEN /\ last' = Call("Pop", 0, 0, 0, "ub", 0)
            /\ UNCHANGED <<listVars, other>>
       ELSE /\ last' = Call("Pop", 0, 0, 0, "ok", data[Traverse(0)])
            /\ Store(EraseBody(0))
    /\ UNCHANGED <<array, input, pc, threadVars>>

\* Stack::Pop (Stack.h:120-127): Back(), then PopBack().
Pop ==
    /\ IF IsEmpty
       THEN /\ last' = Call("Pop", 0, 0, 0, "stack_is_empty", 0)
            /\ UNCHANGED <<listVars, other>>
       ELSE IF Traverse(SubSize(size, 1)) = NULL
               \/ EraseDerefsNull(SubSize(size, 1))
       THEN /\ last' = Call("Pop", 0, 0, 0, "ub", 0)
            /\ UNCHANGED <<listVars, other>>
       ELSE /\ last' = Call("Pop", 0, 0, 0, "ok",
                            data[Traverse(SubSize(size, 1))])
            /\ Store(EraseBody(SubSize(size, 1)))
    /\ UNCHANGED <<array, input, pc, threadVars>>

StackNext ==
    \/ \E Value \in Values : size < HeapSize /\ Push(Value)
    \/ Peek
    \/ Pop

\* Stack::Stack() (Stack.h:27-28), then any sequence of Push, Peek and Pop.
StackSpec == Init /\ [][StackNext]_vars

\* ======================================================== properties
RemoveAt(s, i) == [k \in 1..(Len(s) - 1) |-> IF k < i THEN s[k] ELSE s[k + 1]]
InsertAt(s, i, v) ==
    [k \in 1..(Len(s) + 1) |-> IF k < i THEN s[k] ELSE IF k = i THEN v ELSE s[k - 1]]

\* The value List::operator[] returns for Index.
IndexValue(Index) == ValueOf(data, Traverse(Index))

\* C1: a successful Get(i) / operator[](i) returns the element reached from
\* head by following exactly i next-links, for every list size.
C1_IndexAgreesWithIteration ==
    (last.op = "Get" /\ last.outcome = "ok") => last.ret = Elements[last.a + 1]

\* C2: after Insert(i, v) on a list of size n, with i in [0, n], Get(i)
\* returns v and Size() is n + 1.
C2_GetAfterInsert ==
    [][\A Index \in Indices :
          (last'.op = "Insert" /\ last'.outcome = "ok" /\ last'.a = Index)
              => (size' = size + 1 /\ IndexValue(Index)' = last'.v)]_vars

\* C3: Erase(i) with i in [0, n-1] decreases Size() by one and removes
\* exactly the element at position i of the head-to-tail order.
C3_EraseRemovesIndex ==
    [][(last'.op = "Erase" /\ last'.outcome = "ok")
        => (size' = size - 1 /\ Elements' = RemoveAt(Elements, last'.a + 1))]_vars

\* C4: Insert(i, v) with i in [0, n] splices v in at position i of the
\* head-to-tail order, and head is the new node when i = 0.
C4_InsertSplicesAtIndex ==
    [][(last'.op \in {"Insert", "Emplace"} /\ last'.outcome = "ok")
        => /\ Elements' = InsertAt(Elements, last'.a + 1, last'.v)
           /\ (last'.a = 0 => ValueOf(data', head') = last'.v)]_vars

\* The call recorded in last' was made with an index outside its range.
OutOfRangeCall ==
    \/ last'.op \in {"Get", "Erase"} /\ last'.a >= size
    \/ last'.op = "Swap" /\ (last'.a >= size \/ last'.b >= size)
    \/ last'.op \in {"Insert", "Emplace"} /\ last'.a > size

\* C5: an index-taking operation called with an index outside its valid
\* range raises the out-of-range error and leaves the list unmodified.
C5_OutOfRangeLeavesListUnmodified ==
    [][OutOfRangeCall
        => /\ last'.outcome = "out_of_range"
           /\ size' = size
           /\ Elements' = Elements
           /\ UNCHANGED listVars]_vars

C5_Witness ==
    /\ last.op = "Insert"
    /\ last.a = size + 1
    /\ last.outcome = "out_of_range"
    /\ size = 2

\* C6: Front, Back, PopFront and PopBack on an empty list raise the
\* out-of-range error and leave the list empty.
C6_EmptyAccessIsOutOfRange ==
    [][(size = 0 /\ last'.op \in {"Front", "Back", "PopFront", "PopBack"})
        => /\ last'.outcome = "out_of_range"
           /\ size' = 0
           /\ head' = NULL
           /\ tail' = NULL]_vars

C6_Witness ==
    /\ last.op = "PopBack"
    /\ last.a = SIZE_MAX
    /\ last.outcome = "out_of_range"
    /\ size = 0

\* C7: after any sequence of operations the list is a well-formed doubly
\* linked chain of exactly size nodes between head and tail.
C7_DoublyLinkedInvariant ==
    /\ (size = 0) <=> (head = NULL /\ tail = NULL)
    /\ (head = NULL) <=> (tail = NULL)
    /\ size > 0 =>
          /\ Walk(head, size - 1) = tail
          /\ WalkBack(tail, size - 1) = head
          /\ previous[head] = NULL
          /\ next[tail] = NULL
          /\ \A i \in 0..(size - 1) :
                LET n == Walk(head, i)
                IN /\ n # NULL
                   /\ data[n] # NoData
                   /\ next[n] # NULL => previous[next[n]] = n
                   /\ previous[n] # NULL => next[previous[n]] = n

C7_Witness ==
    /\ last.op = "Erase"
    /\ last.outcome = "ok"
    /\ last.a = 2
    /\ size = 4

\* The collection a finished sort was applied to, and its elements.
SortedCollection == IF last.on = "list" THEN ListCollection ELSE ArrayCollection(array)
SortedStore == IF last.on = "list" THEN data ELSE array
SortedElements == IF last.on = "list" THEN Elements ELSE array
SortDone == pc = "sorted" /\ last.outcome = "ok"

CountOf(s, v) == Cardinality({i \in 1..Len(s) : s[i] = v})

\* C8: after BubbleSort, MergeSort, QuickSort or Algorithms::Sort with a
\* comparer and the collection's size, IsSorted with the same size and
\* comparer returns true.
C8_SortedAfterSort ==
    (SortDone /\ last.a = Len(SortedElements))
        => SortingIsSorted(last.a, SortedCollection, SortedStore, last.cmp)
               = [outcome |-> "ok", ret |-> TRUE]

C10_SortPermutes ==
    SortDone => \A v \in SortValues : CountOf(SortedElements, v) = CountOf(input, v)

\* The element store of the list right after its construction from input.
InputStore == [n \in NodeIds |-> IF n <= Len(input) THEN input[n] ELSE NoData]

\* What Algorithm leaves when applied to an equal copy of the collection
\* the finished sort started from, with the same size and comparer.
SortOfCopy(Algorithm) ==
    IF last.on = "list"
    THEN SortBy(Algorithm, last.a, ListCollection, InputStore, last.cmp).d
    ELSE SortBy(Algorithm, last.a, ArrayCollection(input), input, last.cmp).d

PairwiseDistinct(s) == \A i, j \in 1..Len(s) : i # j => s[i] # s[j]

\* C11: on equal copies of a collection of pairwise distinct elements,
\* BubbleSort, MergeSort and QuickSort with the same comparer end with the
\* same element order.
C11_SortsAgreeOnDistinct ==
    (SortDone /\ last.op \in {"BubbleSort", "MergeSort", "QuickSort"}
        /\ last.a = Len(input) /\ PairwiseDistinct(input))
        => \A Algorithm \in {"BubbleSort", "MergeSort", "QuickSort"} :
              SortedStore = SortOfCopy(Algorithm)

\* C12: IsSorted returns true for every size <= 1, reading no element out
\* of range; List::IsSorted() on an empty list returns true.
C12_IsSortedTrivialSizes ==
    (last.op = "IsSorted" /\ size <= 1) => (last.outcome = "ok" /\ last.flag)

\* C13: on a List of size >= 2, IsSorted() returns false exactly when some
\* adjacent pair of the head-to-tail order satisfies the greater-than
\* comparer.
C13_IsSortedReadsListOrder ==
    (last.op = "IsSorted" /\ size >= 2)
        => /\ last.outcome = "ok"
           /\ last.flag <=> ~(\E i \in 1..(size - 1) : Elements[i] > Elements[i + 1])

\* C14: List::BubbleSort, MergeSort and QuickSort return normally for every
\* size, the empty list included.
C14_SortsReturnNormally ==
    (last.op \in {"BubbleSort", "MergeSort", "QuickSort"} /\ last.on = "list")
        => last.outcome = "ok"

\* The head-to-tail order with the elements at positions Left and Right
\* exchanged.
SwappedElements(Left, Right) ==
    [i \in 1..size |-> IF i = Left + 1 THEN Elements[Right + 1]
                       ELSE IF i = Right + 1 THEN Elements[Left + 1]
                       ELSE Elements[i]]

ReversedElements == [i \in 1..size |-> Elements[size + 1 - i]]

\* C15: after Reverse() the element at position i is the element that was
\* at position n-1-i before the call, for every i, and the size is
\* unchanged.
C15_ReverseReversesOrder ==
    [][last'.op = "Reverse" => (size' = size /\ Elements' = ReversedElements)]_vars

\* C17: Swap(i, j) with both indices valid exchanges the elements at
\* positions i and j and leaves every other element, the size and the node
\* links unchanged; Swap(i, i) leaves the list unchanged.
C17_SwapExchangesPositions ==
    [][\A Left, Right \in 0..(HeapSize - 1) :
          (last'.op = "Swap" /\ last'.a = Left /\ last'.b = Right
              /\ IsValidIndex(Left) /\ IsValidIndex(Right))
          => /\ Elements' = SwappedElements(Left, Right)
             /\ UNCHANGED <<size, head, tail, previous, next>>]_vars

\* C16: for every list of size n >= 2, Reverse() applied twice returns the
\* list to its original head-to-tail order.
C16_ReverseTwiceRestores ==
    (pc = "reversed2" /\ Len(input) >= 2) => Elements = input

\* The values pushed so far and not yet popped, oldest first.
Remaining == SubSeq(input, 1, size)
RemainingNewestFirst == [i \in 1..size |-> input[size + 1 - i]]

\* C18: after PushBack(v1) .. PushBack(vn), n rounds of Back(), PopBack()
\* observe vn, .., v1 and leave the list empty; likewise PushFront(v1) ..
\* PushFront(vn) followed by n rounds of Front(), PopFront().
C18_PushPopIsLifo ==
    [][/\ pc' = "back" =>
            (last'.outcome = "ok" /\ last'.ret = input[size] /\ Elements = Remaining)
       /\ pc' = "popback" =>
            (last'.outcome = "ok" /\ size' = size - 1 /\ Elements' = Remaining')
       /\ pc' = "front" =>
            (last'.outcome = "ok" /\ last'.ret = input[size]
                /\ Elements = RemainingNewestFirst)
       /\ pc' = "popfront" =>
            (last'.outcome = "ok" /\ size' = size - 1
                /\ Elements' = RemainingNewestFirst')]_vars

\* The last of at least three rounds of Front(), PopFront() has emptied a
\* list whose first and last pushed values differ.
C18_Witness ==
    /\ pc = "popfront"
    /\ size = 0
    /\ Len(input) >= 3
    /\ input[1] # input[Len(input)]
    /\ last.op = "PopFront"

\* C19: Clear() makes any list empty (size 0, head and tail absent) without
\* error, also when the list is already empty, and the list can be pushed
\* to and inserted into afterwards.
C19_ClearEmptiesAndIsIdempotent ==
    /\ [](last.op = "Clear" => (last.outcome = "ok" /\ InitList))
    /\ [][(last.op = "Clear" /\ last'.op \in {"Insert", "Emplace", "PushFront", "PushBack"}
              /\ last'.a = 0)
          => (last'.outcome = "ok" /\ Elements' = <<last'.v>>)]_vars

\* A list has just been emptied by Clear().
C19_Witness == last.op = "Clear" /\ size = 0 /\ head = NULL /\ tail = NULL

\* The head-to-tail positions, from 0, that hold an element equal to v.
Positions(v) == {i \in 0..(size - 1) : Elements[i + 1] = v}
Smallest(S) == CHOOSE x \in S : \A y \in S : x <= y
Largest(S) == CHOOSE x \in S : \A y \in S : x >= y

\* C20: Find(v) is the smallest position holding an element equal to v,
\* FindLast(v) the largest, both -1 exactly when there is none; Total(v) is
\* the number of such positions; Contains(v) holds iff Find(v) # -1; none of
\* the four modifies the list.
C20_SearchResults ==
    [][\A v \in SearchValues :
          (last'.op \in {"Find", "FindLast", "Contains", "Total"} /\ last'.v = v)
          => /\ UNCHANGED listVars
             /\ last'.outcome = "ok"
             /\ last'.op = "Find" =>
                    last'.ret = IF Positions(v) = {} THEN -1 ELSE Smallest(Positions(v))
             /\ last'.op = "FindLast" =>
                    last'.ret = IF Positions(v) = {} THEN -1 ELSE Largest(Positions(v))
             /\ last'.op = "Total" => last'.ret = Cardinality(Positions(v))
             /\ last'.op = "Contains" =>
                    /\ last'.flag <=> (ListFind(v) # -1)
                    /\ last'.flag <=> (Positions(v) # {})]_vars

\* FindLast(1) on the list [3,1,4,1,5] has returned 3.
C20_Witness ==
    /\ Elements = <<3, 1, 4, 1, 5>>
    /\ last.op = "FindLast"
    /\ last.v = 1
    /\ last.ret = 3

\* C21: a copy-constructed or copy-assigned list has the size and the
\* elements, in order, of its source and shares no node with it; a later
\* Insert, Erase, Set, Swap or Clear on one of the two lists leaves the
\* size and the elements of the other unchanged; copy-assigning a list to
\* itself leaves it unchanged.
C21_CopyIsDeep ==
    [][/\ last'.op = "CopyConstruct" =>
            /\ OtherElements' = Elements /\ other'.size = size
            /\ Elements' = Elements /\ size' = size
            /\ NodesFrom(head)' \cap NodesFrom(other.head)' = {}
       /\ last'.op = "CopyAssign" =>
            /\ Elements' = OtherElements /\ size' = other.size
            /\ OtherElements' = OtherElements /\ other'.size = other.size
            /\ NodesFrom(head)' \cap NodesFrom(other.head)' = {}
       /\ last'.op \in {"Insert", "Erase", "Set", "Swap", "Clear"} =>
            (OtherElements' = OtherElements /\ other'.size = other.size)
       /\ last'.op = "CopyAssignSelf" =>
            (Elements' = Elements /\ size' = size)]_vars

\* One of two lists of three elements each, made by copying, has just been
\* changed by a member call.
C21_Witness ==
    /\ last.op \in {"Erase", "Set", "Swap", "Clear"}
    /\ last.outcome = "ok"
    /\ other.size = 3
    /\ Len(input) = 3
    /\ OtherElements = input
    /\ Elements # input

\* The allocated nodes that no list reaches.
Unowned ==
    {n \in NodeIds : data[n] # NoData} \ (NodesFrom(head) \cup NodesFrom(other.head))

\* C22: after move construction and move assignment the destination holds
\* the source's former elements, the source is empty (size 0, head and
\* tail absent) and can be inserted into, and no node is owned by both
\* lists.
C22_MoveTransfers ==
    [][/\ last'.op = "MoveConstruct" =>
            /\ OtherElements' = Elements /\ other'.size = size
            /\ size' = 0 /\ head' = NULL /\ tail' = NULL
            /\ NodesFrom(head)' \cap NodesFrom(other.head)' = {}
       /\ last'.op = "MoveAssign" =>
            /\ Elements' = OtherElements /\ size' = other.size
            /\ other' = EmptyObject
            /\ NodesFrom(head)' \cap NodesFrom(other.head)' = {}
            /\ Unowned' = {}
       /\ (last.op = "MoveConstruct" /\ last'.op = "Insert" /\ last'.a = 0) =>
            (last'.outcome = "ok" /\ Elements' = <<last'.v>>
                /\ OtherElements' = OtherElements)
       /\ (last.op = "MoveAssign" /\ last'.op = "SwitchReceiver") =>
            (size' = 0 /\ head' = NULL /\ tail' = NULL)]_vars

\* A list of two elements or more has been move-assigned to a list that
\* held other elements.
C22_Witness ==
    /\ last.op = "MoveAssign"
    /\ size >= 2
    /\ other = EmptyObject
    /\ Elements # input

C26_TraverseShortestPath ==
    (last.op = "Get" /\ IsValidIndex(last.a))
        => /\ TraverseLinks(last.a) =
                  (IF last.a <= size \div 2 THEN last.a ELSE size - 1 - last.a)
           /\ TraverseLinks(last.a) <= size \div 2
           /\ Traverse(last.a) # NULL

\* C27: the stack is last-in first-out.  Its content, oldest push first,
\* is Elements: Push(v) appends v, Pop() returns and removes the last
\* value, Peek() returns it and removes nothing, the size goes up by one
\* with a Push and down by one with a successful Pop, and Pop() or Peek()
\* on an empty stack raises the stack-is-empty error and leaves it empty.
C27_StackIsLifo ==
    [][/\ last'.op = "Push" =>
            (last'.outcome = "ok" /\ Elements' = Append(Elements, last'.v)
                /\ size' = size + 1)
       /\ (last'.op = "Pop" /\ size > 0) =>
            /\ last'.outcome = "ok"
            /\ last'.ret = Elements[size]
            /\ Elements' = SubSeq(Elements, 1, size - 1)
            /\ size' = size - 1
       /\ (last'.op = "Peek" /\ size > 0) =>
            /\ last'.outcome = "ok"
            /\ last'.ret = Elements[size]
            /\ UNCHANGED listVars
       /\ (last'.op \in {"Pop", "Peek"} /\ size = 0) =>
            /\ last'.outcome = "stack_is_empty"
            /\ InitList'
            /\ UNCHANGED listVars]_vars

\* A Pop has returned the newest of at least three values, which differs
\* from the oldest one.
C27_Witness ==
    /\ last.op = "Pop"
    /\ last.outcome = "ok"
    /\ size >= 2
    /\ last.ret # Elements[1]

\* The comparer of the finished sort is false in both directions.
Equivalent(Left, Right) ==
    ~Compare(last.cmp, Left, Right) /\ ~Compare(last.cmp, Right, Left)

\* C24: BubbleSort and MergeSort are stable: two sorted elements that the
\* comparer holds equivalent are in the output in their input order.
C24_StableSorts ==
    (SortDone /\ last.op \in {"BubbleSort", "MergeSort"})
        => \A i, j \in 1..last.a :
              (i < j /\ Equivalent(input[i], input[j]))
              => \E p, q \in 1..Len(SortedElements) :
                    /\ p < q
                    /\ SortedElements[p] = input[i]
                    /\ SortedElements[q] = input[j]

\* The first Size elements of a sequence.
FirstElements(s, Size) == SubSeq(s, 1, Size)

\* C25: BubbleSort, MergeSort or QuickSort called with a size k between 1
\* and the number of elements stays inside the first k positions: it
\* returns normally, the first k positions hold a permutation of the
\* former first k elements that IsSorted accepts for size k and the same
\* comparer, and every element from position k on is unchanged.
C25_PartialSort ==
    (pc = "sorted" /\ last.op \in {"BubbleSort", "MergeSort", "QuickSort"})
        => /\ last.outcome = "ok"
           /\ \A v \in SortValues :
                 CountOf(FirstElements(SortedElements, last.a), v)
                     = CountOf(FirstElements(input, last.a), v)
           /\ SortingIsSorted(last.a, SortedCollection, SortedStore, last.cmp)
                  = [outcome |-> "ok", ret |-> TRUE]
           /\ \A i \in (last.a + 1)..Len(input) : SortedElements[i] = input[i]

\* The step on which Join returns true.
JoinReturnsTrue ==
    /\ owner # "idle"
    /\ owner' = "idle"
    /\ returned' = [op |-> "Join", ret |-> TRUE]

\* C28: when Join returns true the worker is not running Execution, and
\* IsComplete() or IsCancelled() holds.
C28_JoinWaitsForWorker ==
    [][JoinReturnsTrue => (worker' # "execute" /\ (IsComplete' \/ IsCancelled'))]_vars

\* Cancel has returned true and the thread is not started.
CancelledBeforeStart ==
    /\ returned = [op |-> "Cancel", ret |-> TRUE]
    /\ ~started

\* C29: once Cancel has returned true before the thread is started, for as
\* long as the Thread object exists Execution is not invoked, ExitCode()
\* is THREAD_INCOMPLETE and IsComplete() is false.
C29_CancelBeforeStart ==
    [](CancelledBeforeStart
         => [](~Destroyed => /\ worker \in {"spin", "check", "done"}
                             /\ code = THREAD_INCOMPLETE
                             /\ ~complete
                             /\ ~IsComplete))

\* Cancel has returned true before the start, and Run, having found the
\* thread not started, is about to start it.
C29_Witness ==
    /\ CancelledBeforeStart
    /\ owner = "run_store"
    /\ worker = "spin"

\* C30: once the destructor has returned, the worker has finished: it makes
\* no further access to started, cancelled, code or complete.
C30_NoAccessAfterDestructor ==
    Destroyed => worker = "done"

=============================================================================
